---- MODULE Spec2Model ----
(***************************************************************************)
(* The entity-component store of src/src/ecs.rs: World (entity list and    *)
(* the type-indexed registry of RefCell-guarded storages), the checked     *)
(* borrows handed out by storage / storage_mut / view / view_mut, and the  *)
(* joins query / query2 / query3.                                          *)
(***************************************************************************)
EXTENDS Integers, Sequences, FiniteSets, Bags, TLC

\* ---------------------------------------------------------------- bounds
MaxEntities == 3
MaxHandles == 2

\* Entity(u32): the 32-bit identifier is kept at full width as two 16-bit
\* halves <<high, low>>.
U16Max == 65535

u32(n) == <<0, n>>

U32Max == <<U16Max, U16Max>>

\* a < b on u32.
u32_lt(a, b) == a[1] < b[1] \/ (a[1] = b[1] /\ a[2] < b[2])

\* x + 1 on u32 with wrap-around (a build without overflow checks).
u32_wrapping_inc(x) ==
    IF x[2] < U16Max THEN <<x[1], x[2] + 1>>
    ELSE IF x[1] < U16Max THEN <<x[1] + 1, 0>>
    ELSE u32(0)

\* Component types (TypeId keys of the registry) and component values.
Types == {"A", "B", "C"}
Values == {"v1", "v2"}

\* The values a component of type T can take; C is a marker type (a unit
\* struct such as DirtyVisual) with a single value.
ValuesOf(T) == IF T = "C" THEN {"v1"} ELSE Values
EntityIds == {u32(1), u32(2)}

VARIABLES entities, storages, handles, pc, op, calls

vars == <<entities, storages, handles, pc, op, calls>>

\* ------------------------------------------------- Storage<T>.data (HashMap)
\* A storage's data is a set of <<entity, value>> entries.
Keys(data) == {p[1] : p \in data}

\* HashMap::get as used by View::get and the joins' point lookups.
get(data, entity) ==
    IF entity \in Keys(data)
    THEN (CHOOSE p \in data : p[1] = entity)[2]
    ELSE "none"

\* A HashMap::insert that keeps the old entry beside the new one.
hashmap_insert_keep(data, entity, component) ==
    data \cup {<<entity, component>>}

\* HashMap::insert: the entry of the key is replaced.
hashmap_insert(data, entity, component) ==
    {p \in data : p[1] # entity} \cup {<<entity, component>>}

\* HashMap::get_mut followed by a write through the &mut T.
hashmap_set(data, entity, component) ==
    IF entity \in Keys(data)
    THEN {p \in data : p[1] # entity} \cup {<<entity, component>>}
    ELSE data

\* ------------------------------------------------------ RefCell borrow flag
\* 0: unused, n > 0: n shared borrows, -1: one exclusive borrow.
UNUSED == 0
WRITING == 0 - 1

\* RefCell::borrow succeeds unless the cell is exclusively borrowed.
try_borrow(flag) == flag >= UNUSED

\* RefCell::borrow_mut succeeds only on an unused cell.
try_borrow_mut(flag) == flag = UNUSED

\* HashMap::new for the registry: no TypeId has a storage.
EmptyMap == [t \in {} |-> 0]

NoHandles == [t \in Types |-> [shared |-> 0, exclusive |-> 0]]

HeldCount ==
    LET RECURSIVE Sum(_)
        Sum(S) == IF S = {} THEN 0
                  ELSE LET t == CHOOSE x \in S : TRUE
                       IN handles[t].shared + handles[t].exclusive + Sum(S \ {t})
    IN Sum(Types)

\* What the last operation handed back to its caller: its name, its outcome
\* ("ok", "some", "none" or "panic"), the Entity spawn returned and the
\* previous value HashMap::insert / get_mut found under the key.
NoOp == [name |-> "new", result |-> "ok", entity |-> u32(0), old |-> "none"]

\* World::new
Init ==
    /\ entities = <<>>
    /\ storages = EmptyMap
    /\ handles = NoHandles
    /\ pc = "running"
    /\ op = NoOp
    /\ calls = EmptyBag


\* A fatal error (panic): the operation does not return and the program ends.
Panic(name) ==
    /\ pc' = "panicked"
    /\ op' = [NoOp EXCEPT !.name = name, !.result = "panic"]
    /\ calls' = EmptyBag
    /\ UNCHANGED <<entities, storages, handles>>

\* ------------------------------------------------------------ World::spawn
\* `last + 1` where the addition does not panic.
spawn_next(last) == u32_wrapping_inc(last)

\* spawn takes &mut self: no Ref / RefMut of the World can be alive.
spawn ==
    /\ pc = "running"
    /\ HeldCount = 0
    /\ Len(entities) < MaxEntities
    /\ LET last == IF entities = <<>> THEN u32(0) ELSE entities[Len(entities)]
       IN \E overflow_checks \in BOOLEAN :
            IF last = U32Max /\ overflow_checks
            THEN Panic("spawn")
            ELSE /\ entities' = Append(entities, spawn_next(last))
                 /\ op' = [NoOp EXCEPT !.name = "spawn",
                                       !.entity = spawn_next(last)]
                 /\ pc' = "returned"
                 /\ calls' = EmptyBag
                 /\ UNCHANGED <<storages, handles>>

\* ----------------------------------------------------------- World::insert
\* RefCell::new(Box::new(Storage::<T>::new())): an empty storage in an unused
\* cell. `of` is the concrete type behind the Box<dyn Any>.
Storage_new(T) == [data |-> {}, borrow |-> UNUSED, of |-> T]

\* downcast_ref / downcast_mut::<Storage<T>>(): Some only when the box was
\* created as a Storage<T>; the callers unwrap it.
downcast(cell, T) == cell.of = T

\* A registry insert that puts a new empty storage under T every time.
or_insert_with_fresh(st, T) ==
    [t \in DOMAIN st \cup {T} |->
        IF t # T THEN st[t] ELSE Storage_new(T)]

\* A registry insert that boxes a storage of the first registered type.
or_insert_with_first(st, T) ==
    [t \in DOMAIN st \cup {T} |->
        IF t \in DOMAIN st THEN st[t]
        ELSE IF DOMAIN st = {} THEN Storage_new(T)
        ELSE Storage_new((CHOOSE u \in DOMAIN st : TRUE))]

\* entry(type_id).or_insert_with(..): the cell of T, created empty if absent.
or_insert_with(st, T) ==
    [t \in DOMAIN st \cup {T} |->
        IF t \in DOMAIN st THEN st[t] ELSE Storage_new(T)]

\* insert takes &mut self: no Ref / RefMut of the World can be alive.
insert(T, entity, component) ==
    /\ pc = "running"
    /\ HeldCount = 0
    /\ LET st == or_insert_with(storages, T)
       IN IF ~try_borrow_mut(st[T].borrow) \/ ~downcast(st[T], T)
          THEN /\ storages' = st
               /\ pc' = "panicked"
               /\ op' = [NoOp EXCEPT !.name = "insert", !.result = "panic"]
               /\ calls' = EmptyBag
               /\ UNCHANGED <<entities, handles>>
          ELSE /\ storages' = [st EXCEPT ![T].data =
                                   hashmap_insert(@, entity, component)]
               /\ op' = [NoOp EXCEPT !.name = "insert",
                                     !.old = get(st[T].data, entity)]
               /\ pc' = "returned"
               /\ calls' = EmptyBag
               /\ UNCHANGED <<entities, handles>>

\* ------------------------------------ World::storage / World::storage_mut
\* A storage::<T>() that unwraps the registry lookup.
storage_result_unwrap(st, T) ==
    IF T \notin DOMAIN st THEN "panic"
    ELSE IF try_borrow(st[T].borrow) THEN "some" ELSE "panic"

\* A storage::<T>() that hands out the storage without asking the cell.
storage_result_noflag(st, T) ==
    IF T \notin DOMAIN st THEN "none" ELSE "some"

\* storage::<T>(): `?` on the registry lookup, then cell.borrow() and the
\* unwrapped downcast.
storage_result(st, T) ==
    IF T \notin DOMAIN st THEN "none"
    ELSE IF try_borrow(st[T].borrow) /\ downcast(st[T], T)
         THEN "some" ELSE "panic"

\* A storage_mut::<T>() that takes the cell with borrow().
storage_mut_result_shared(st, T) ==
    IF T \notin DOMAIN st THEN "none"
    ELSE IF try_borrow(st[T].borrow) THEN "some" ELSE "panic"

\* A storage_mut::<T>() that unwraps the registry lookup.
storage_mut_result_unwrap(st, T) ==
    IF T \notin DOMAIN st THEN "panic"
    ELSE IF try_borrow_mut(st[T].borrow) THEN "some" ELSE "panic"

\* A storage_mut::<T>() behind one borrow flag for the whole registry.
storage_mut_result_global(st, T) ==
    IF T \notin DOMAIN st THEN "none"
    ELSE IF \A t \in DOMAIN st : try_borrow_mut(st[t].borrow)
         THEN "some" ELSE "panic"

\* storage_mut::<T>(): `?` on the registry lookup, then cell.borrow_mut()
\* and the unwrapped downcast.
storage_mut_result(st, T) ==
    IF T \notin DOMAIN st THEN "none"
    ELSE IF try_borrow_mut(st[T].borrow) /\ downcast(st[T], T)
         THEN "some" ELSE "panic"

\* The Ref returned by cell.borrow() is alive.
acquire(st, T) == [st EXCEPT ![T].borrow = @ + 1]

\* The RefMut returned by cell.borrow_mut() is alive.
acquire_mut(st, T) == [st EXCEPT ![T].borrow = WRITING]

\* A Ref is dropped.
release(st, T) == [st EXCEPT ![T].borrow = @ - 1]

\* A RefMut is dropped.
release_mut(st, T) == [st EXCEPT ![T].borrow = UNUSED]

\* The caller asks for a shared handle and keeps it when it gets one.
\* name is "storage" (r is storage's result) or "view" (r is view's result).
Shared(name, T, r) ==
    /\ pc = "running"
    /\ r = "some" => HeldCount < MaxHandles
    /\ storages' = IF r = "some" THEN acquire(storages, T) ELSE storages
    /\ handles' = IF r = "some"
                  THEN [handles EXCEPT ![T].shared = @ + 1] ELSE handles
    /\ pc' = IF r = "panic" THEN "panicked" ELSE "returned"
    /\ op' = [NoOp EXCEPT !.name = name, !.result = r]
    /\ calls' = EmptyBag
    /\ UNCHANGED entities

\* The caller asks for an exclusive handle and keeps it when it gets one.
Exclusive(name, T, r) ==
    /\ pc = "running"
    /\ r = "some" => HeldCount < MaxHandles
    /\ storages' = IF r = "some" THEN acquire_mut(storages, T) ELSE storages
    /\ handles' = IF r = "some"
                  THEN [handles EXCEPT ![T].exclusive = @ + 1] ELSE handles
    /\ pc' = IF r = "panic" THEN "panicked" ELSE "returned"
    /\ op' = [NoOp EXCEPT !.name = name, !.result = r]
    /\ calls' = EmptyBag
    /\ UNCHANGED entities

storage(T) == Shared("storage", T, storage_result(storages, T))

storage_mut(T) == Exclusive("storage_mut", T, storage_mut_result(storages, T))

\* ---------------------------------------------- World::view / World::view_mut
\* Option::expect: None is a panic.
expect(r) == IF r = "none" THEN "panic" ELSE r

view(T) == Shared("view", T, expect(storage_result(storages, T)))

view_mut(T) == Exclusive("view_mut", T, expect(storage_mut_result(storages, T)))

\* A View or a Ref<Storage<T>> the caller holds goes out of scope.
drop_shared(T) ==
    /\ pc = "running"
    /\ handles[T].shared > 0
    /\ storages' = release(storages, T)
    /\ handles' = [handles EXCEPT ![T].shared = @ - 1]
    /\ op' = [NoOp EXCEPT !.name = "drop"]
    /\ pc' = "returned"
    /\ calls' = EmptyBag
    /\ UNCHANGED entities

\* A ViewMut or a RefMut<Storage<T>> the caller holds goes out of scope.
drop_exclusive(T) ==
    /\ pc = "running"
    /\ handles[T].exclusive > 0
    /\ storages' = release_mut(storages, T)
    /\ handles' = [handles EXCEPT ![T].exclusive = @ - 1]
    /\ op' = [NoOp EXCEPT !.name = "drop_mut"]
    /\ pc' = "returned"
    /\ calls' = EmptyBag
    /\ UNCHANGED entities

\* ViewMut::get_mut and a write through the returned &mut T.
get_mut(T, entity, component) ==
    /\ pc = "running"
    /\ handles[T].exclusive > 0
    /\ storages' = [storages EXCEPT ![T].data =
                        hashmap_set(@, entity, component)]
    /\ op' = [NoOp EXCEPT !.name = "get_mut",
                          !.result = IF entity \in Keys(storages[T].data)
                                     THEN "some" ELSE "none",
                          !.old = get(storages[T].data, entity)]
    /\ pc' = "returned"
    /\ calls' = EmptyBag
    /\ UNCHANGED <<entities, handles>>

\* --------------------------------------- World::query / query2 / query3
\* The callback invocations of one query are kept as a bag of argument
\* tuples: HashMap iteration order is unspecified, the bag forgets only it.
RECURSIVE iter1(_, _)
\* for (entity, component) in store.data.iter() { f(*entity, component) }
iter1(todo, acc) ==
    IF todo = {} THEN acc
    ELSE LET p == CHOOSE x \in todo : TRUE
         IN iter1(todo \ {p}, acc (+) SetToBag({<<p[1], p[2]>>}))

RECURSIVE iter2_noprobe(_, _, _)
\* A query2 loop that passes every entity of a, whatever the lookup in b gave.
iter2_noprobe(todo, b, acc) ==
    IF todo = {} THEN acc
    ELSE LET p == CHOOSE x \in todo : TRUE
         IN iter2_noprobe(todo \ {p}, b,
                          acc (+) SetToBag({<<p[1], p[2], get(b, p[1])>>}))

RECURSIVE iter2(_, _, _)
\* the loop of query2: drive from a, probe b by point lookup.
iter2(todo, b, acc) ==
    IF todo = {} THEN acc
    ELSE LET p == CHOOSE x \in todo : TRUE
             b_comp == get(b, p[1])
         IN iter2(todo \ {p}, b,
                  IF b_comp # "none"
                  THEN acc (+) SetToBag({<<p[1], p[2], b_comp>>})
                  ELSE acc)

RECURSIVE iter3_noc(_, _, _, _)
\* A query3 loop that probes b only.
iter3_noc(todo, b, c, acc) ==
    IF todo = {} THEN acc
    ELSE LET p == CHOOSE x \in todo : TRUE
             b_comp == get(b, p[1])
         IN iter3_noc(todo \ {p}, b, c,
                      IF b_comp # "none"
                      THEN acc (+) SetToBag({<<p[1], p[2], b_comp,
                                               get(c, p[1])>>})
                      ELSE acc)

RECURSIVE iter3(_, _, _, _)
\* the loop of query3: drive from a, probe b, then c.
iter3(todo, b, c, acc) ==
    IF todo = {} THEN acc
    ELSE LET p == CHOOSE x \in todo : TRUE
             b_comp == get(b, p[1])
             c_comp == get(c, p[1])
         IN iter3(todo \ {p}, b, c,
                  IF b_comp # "none" /\ c_comp # "none"
                  THEN acc (+) SetToBag({<<p[1], p[2], b_comp, c_comp>>})
                  ELSE acc)

\* A query ends: either it returned ("ok") or a storage::<T>() call in it
\* panicked. st is the registry once the query's own Refs are dropped.
QueryEnd(name, panicked, st, invoked) ==
    /\ pc = "running"
    /\ storages' = st
    /\ pc' = IF panicked THEN "panicked" ELSE "returned"
    /\ op' = [NoOp EXCEPT !.name = name,
                          !.result = IF panicked THEN "panic" ELSE "ok"]
    /\ calls' = invoked
    /\ UNCHANGED <<entities, handles>>

\* A storage::<T>() whose Ref does not count in the cell's borrow flag.
borrowed_uncounted(st, T, r) == st

\* The registry after a storage::<T>() call whose result is r.
borrowed(st, T, r) == IF r = "some" THEN acquire(st, T) ELSE st

\* A query whose Ref is never dropped (leaked).
dropped_leaked(st, T, r) == st

\* A query that takes the storage out of the registry to read it and does
\* not put it back.
dropped_taken(st, T, r) ==
    IF r = "some" THEN [t \in DOMAIN st \ {T} |-> st[t]] ELSE st

\* The registry after the Option<Ref> with result r is dropped.
dropped(st, T, r) == IF r = "some" THEN release(st, T) ELSE st

query(T) ==
    LET r == storage_result(storages, T)
        st1 == borrowed(storages, T, r)
    IN QueryEnd("query", r = "panic", dropped(st1, T, r),
                IF r = "some" THEN iter1(st1[T].data, EmptyBag) ELSE EmptyBag)

query2(A, B) ==
    LET ra == storage_result(storages, A)
        st1 == borrowed(storages, A, ra)
        rb == IF ra = "panic" THEN "unreached" ELSE storage_result(st1, B)
        st2 == borrowed(st1, B, rb)
    IN QueryEnd("query2", "panic" \in {ra, rb},
                dropped(dropped(st2, B, rb), A, ra),
                IF ra = "some" /\ rb = "some"
                THEN iter2(st2[A].data, st2[B].data, EmptyBag)
                ELSE EmptyBag)

query3(A, B, C) ==
    LET ra == storage_result(storages, A)
        st1 == borrowed(storages, A, ra)
        rb == IF ra = "panic" THEN "unreached" ELSE storage_result(st1, B)
        st2 == borrowed(st1, B, rb)
        rc == IF "panic" \in {ra, rb} THEN "unreached"
              ELSE storage_result(st2, C)
        st3 == borrowed(st2, C, rc)
    IN QueryEnd("query3", "panic" \in {ra, rb, rc},
                dropped(dropped(dropped(st3, C, rc), B, rb), A, ra),
                IF ra = "some" /\ rb = "some" /\ rc = "some"
                THEN iter3(st3[A].data, st3[B].data, st3[C].data, EmptyBag)
                ELSE EmptyBag)

\* ------------------------------------------- a callback that re-enters
\* What a callback gets that asks the World for an exclusive handle on T
\* (req is "storage_mut" or "view_mut") while the registry is st.
request_mut(st, req, T) ==
    IF req = "view_mut" THEN expect(storage_mut_result(st, T))
    ELSE storage_mut_result(st, T)

\* A query whose callback f, each time it is invoked, asks for an exclusive
\* handle on T and drops what it got before it returns. held is the registry
\* while the loop runs, st the registry once the query's Refs are dropped,
\* invoked the invocations the loop makes. A panic of the query's own
\* storage::<T>() calls or of the callback's request ends the program; calls
\* then keeps no invocation, none having completed. op also keeps which
\* types the query named and which type the callback asked for.
CallbackEnd(name, named, panicked, held, st, invoked, req, T) ==
    LET rt == IF panicked \/ invoked = EmptyBag THEN "ok"
              ELSE request_mut(held, req, T)
    IN /\ pc = "running"
       /\ storages' = st
       /\ pc' = IF panicked \/ rt = "panic" THEN "panicked" ELSE "returned"
       /\ op' = [name |-> name,
                 result |-> IF panicked THEN "panic" ELSE rt,
                 entity |-> NoOp.entity, old |-> NoOp.old,
                 named |-> named, requested |-> T]
       /\ calls' = IF panicked \/ rt = "panic" THEN EmptyBag ELSE invoked
       /\ UNCHANGED <<entities, handles>>

query_reentrant(A, req, T) ==
    LET r == storage_result(storages, A)
        st1 == borrowed(storages, A, r)
    IN CallbackEnd("query_reentrant", {A}, r = "panic", st1, dropped(st1, A, r),
                   IF r = "some" THEN iter1(st1[A].data, EmptyBag)
                   ELSE EmptyBag,
                   req, T)

query2_reentrant(A, B, req, T) ==
    LET ra == storage_result(storages, A)
        st1 == borrowed(storages, A, ra)
        rb == IF ra = "panic" THEN "unreached" ELSE storage_result(st1, B)
        st2 == borrowed(st1, B, rb)
    IN CallbackEnd("query2_reentrant", {A, B}, "panic" \in {ra, rb}, st2,
                   dropped(dropped(st2, B, rb), A, ra),
                   IF ra = "some" /\ rb = "some"
                   THEN iter2(st2[A].data, st2[B].data, EmptyBag)
                   ELSE EmptyBag,
                   req, T)

query3_reentrant(A, B, C, req, T) ==
    LET ra == storage_result(storages, A)
        st1 == borrowed(storages, A, ra)
        rb == IF ra = "panic" THEN "unreached" ELSE storage_result(st1, B)
        st2 == borrowed(st1, B, rb)
        rc == IF "panic" \in {ra, rb} THEN "unreached"
              ELSE storage_result(st2, C)
        st3 == borrowed(st2, C, rc)
    IN CallbackEnd("query3_reentrant", {A, B, C}, "panic" \in {ra, rb, rc},
                   st3,
                   dropped(dropped(dropped(st3, C, rc), B, rb), A, ra),
                   IF ra = "some" /\ rb = "some" /\ rc = "some"
                   THEN iter3(st3[A].data, st3[B].data, st3[C].data, EmptyBag)
                   ELSE EmptyBag,
                   req, T)

Requests == {"storage_mut", "view_mut"}

\* The caller has the result of the operation and goes on to its next call.
resume ==
    /\ pc = "returned"
    /\ pc' = "running"
    /\ op' = NoOp
    /\ calls' = EmptyBag
    /\ UNCHANGED <<entities, storages, handles>>

Next ==
    \/ resume
    \/ spawn
    \/ \E T \in Types, entity \in EntityIds :
          \E component \in ValuesOf(T) : insert(T, entity, component)
    \/ \E T \in Types : storage(T)
    \/ \E T \in Types : storage_mut(T)
    \/ \E T \in Types : view(T)
    \/ \E T \in Types : view_mut(T)
    \/ \E T \in Types : drop_shared(T)
    \/ \E T \in Types : drop_exclusive(T)
    \/ \E T \in Types, entity \in EntityIds :
          \E component \in ValuesOf(T) : get_mut(T, entity, component)
    \/ \E T \in Types : query(T)
    \/ \E A \in Types, B \in Types : query2(A, B)
    \/ \E A \in Types : \E B \in Types \ {A} :
          \E C \in Types \ {A, B} : query3(A, B, C)

Spec == Init /\ [][Next]_vars

\* A World that has allocated every identifier below the largest one. spawn
\* reads only the last element of the list, which is all that is kept here.
InitOverflow ==
    /\ entities = <<<<U16Max, U16Max - 1>>>>
    /\ storages = EmptyMap
    /\ handles = NoHandles
    /\ pc = "running"
    /\ op = NoOp
    /\ calls = EmptyBag

SpecOverflow == InitOverflow /\ [][Next]_vars

\* The store driven by a caller that inserts, takes and drops handles, and
\* runs queries whose callback asks the World for an exclusive handle.
NextReentrant ==
    \/ resume
    \/ \E T \in Types, entity \in EntityIds :
          \E component \in ValuesOf(T) : insert(T, entity, component)
    \/ \E T \in Types : storage(T)
    \/ \E T \in Types : storage_mut(T)
    \/ \E T \in Types : drop_shared(T)
    \/ \E T \in Types : drop_exclusive(T)
    \/ \E A \in Types, T \in Types, req \in Requests :
          query_reentrant(A, req, T)
    \/ \E A \in Types, B \in Types, T \in Types, req \in Requests :
          query2_reentrant(A, B, req, T)
    \/ \E A \in Types : \E B \in Types \ {A} :
          \E C \in Types \ {A, B} : \E T \in Types, req \in Requests :
             query3_reentrant(A, B, C, req, T)

SpecReentrant == Init /\ [][NextReentrant]_vars

\* ===================================================== src/src/main.rs
\* The application: buttons (add_button), the hover step (hover_system and
\* the four functions it calls in sequence) and the render step.
Components ==
    {"Bounds", "Quad", "Interactable", "Parallax", "DirtyVisual", "Transform"}

\* skia_safe::Rect as its four edges (the program's coordinates are whole
\* numbers).
from_xywh(x, y, w, h) ==
    [left |-> x, top |-> y, right |-> x + w, bottom |-> y + h]

\* The rectangles main gives its two buttons.
Rects == {from_xywh(30, 30, 30, 30), from_xywh(100, 200, 150, 300)}

InteractableState == {"DEFAULT", "HOVERED", "PRESSED"}

\* InteractableState::color, the Color4f channels in tenths.
color(state) ==
    CASE state = "DEFAULT" -> <<5, 5, 5, 10>>
      [] state = "HOVERED" -> <<6, 6, 6, 10>>
      [] state = "PRESSED" -> <<3, 3, 3, 10>>

\* The component values of each type. Parallax, DirtyVisual are unit
\* structs; the matrix of a Transform is not read by the modelled code.
ComponentsOf(T) ==
    CASE T = "Bounds" -> {[rect |-> r] : r \in Rects}
      [] T = "Quad" -> {[rect |-> from_xywh(30, 30, 30, 30),
                         color |-> color(s)] : s \in InteractableState}
      [] T = "Interactable" -> {[state |-> s] : s \in InteractableState}
      [] OTHER -> {[unit |-> T]}

\* Cursor positions (x, y).
Points == {<<35, 35>>, <<30, 60>>, <<150, 300>>, <<500, 500>>}

\* The registry after world.insert(entity, component) of type T, made
\* while no storage is borrowed.
inserted(st, T, entity, component) ==
    [or_insert_with(st, T) EXCEPT ![T].data =
        hashmap_insert(@, entity, component)]

\* add_button: spawn, then insert Bounds, Quad, Interactable and Parallax.
\* Only the entities of EntityIds carry components in this model.
add_button(rect) ==
    /\ pc = "running"
    /\ HeldCount = 0
    /\ Len(entities) < MaxEntities
    /\ LET last == IF entities = <<>> THEN u32(0)
                   ELSE entities[Len(entities)]
           button_entity == spawn_next(last)
           st1 == inserted(storages, "Bounds", button_entity, [rect |-> rect])
           st2 == inserted(st1, "Quad", button_entity,
                           [rect |-> rect, color |-> color("DEFAULT")])
           st3 == inserted(st2, "Interactable", button_entity,
                           [state |-> "DEFAULT"])
           st4 == inserted(st3, "Parallax", button_entity,
                           [unit |-> "Parallax"])
       IN /\ button_entity \in EntityIds
          /\ entities' = Append(entities, button_entity)
          /\ storages' = st4
          /\ op' = [NoOp EXCEPT !.name = "add_button",
                                !.entity = button_entity]
          /\ pc' = "returned"
          /\ calls' = EmptyBag
          /\ UNCHANGED handles

\* world.query2::<A, B>() consumed as an iterator (main.rs): the tuples
\* (entity, a, b) of the entities that have a value in both storages; no
\* tuple when a storage is absent. Their order is unspecified: a set.
query2_iter(st, A, B) ==
    IF A \notin DOMAIN st \/ B \notin DOMAIN st THEN {}
    ELSE {<<e, get(st[A].data, e), get(st[B].data, e)>> :
             e \in Keys(st[A].data) \cap Keys(st[B].data)}

\* Edges of a rectangle that excludes its right and bottom edge.
is_hovered_open(rect, x, y) ==
    x >= rect.left /\ x < rect.right /\ y >= rect.top /\ y < rect.bottom

\* x >= rect.left() && x <= rect.right() && y >= rect.top() && y <= rect.bottom()
is_hovered(rect, x, y) ==
    x >= rect.left /\ x <= rect.right /\ y >= rect.top /\ y <= rect.bottom

\* hover_detect: the entities of the Bounds/Interactable join, split by
\* is_hovered into the two Vecs it returns (kept as sets: an entity is
\* pushed once, into one of them).
hover_detect(x, y) ==
    /\ pc = "running"
    /\ LET joined == query2_iter(storages, "Bounds", "Interactable")
       IN op' = [name |-> "hover_detect", result |-> "ok",
                 hovered |-> {t[1] : t \in
                     {u \in joined : is_hovered(u[2].rect, x, y)}},
                 not_hovered |-> {t[1] : t \in
                     {u \in joined : ~is_hovered(u[2].rect, x, y)}}]
    /\ pc' = "detected"
    /\ calls' = EmptyBag
    /\ UNCHANGED <<entities, storages, handles>>

RECURSIVE set_state_always(_, _, _, _)
\* A loop that pushes every listed entity it finds, changed or not.
set_state_always(todo, data, state, changed) ==
    IF todo = {} THEN [data |-> data, changed |-> changed]
    ELSE LET entity == CHOOSE e \in todo : TRUE
         IN IF entity \in Keys(data)
            THEN set_state_always(todo \ {entity},
                     hashmap_set(data, entity,
                         [get(data, entity) EXCEPT !.state = state]),
                     state, changed \cup {entity})
            ELSE set_state_always(todo \ {entity}, data, state, changed)

RECURSIVE set_state(_, _, _, _)
\* for &entity in list { if let Some(i) = data.get_mut(&entity) {
\*     if i.state != state { i.state = state; changed.push(entity); } } }
set_state(todo, data, state, changed) ==
    IF todo = {} THEN [data |-> data, changed |-> changed]
    ELSE LET entity == CHOOSE e \in todo : TRUE
         IN IF entity \in Keys(data) /\ get(data, entity).state # state
            THEN set_state(todo \ {entity},
                     hashmap_set(data, entity,
                         [get(data, entity) EXCEPT !.state = state]),
                     state, changed \cup {entity})
            ELSE set_state(todo \ {entity}, data, state, changed)

\* A hover_update that starts the markers afresh: only the entities changed
\* by this call are marked afterwards.
insert_dirty_reset(changed, st) ==
    LET rest == [t \in DOMAIN st \ {"DirtyVisual"} |-> st[t]]
    IN IF changed = {} THEN rest
       ELSE [t \in DOMAIN rest \cup {"DirtyVisual"} |->
               IF t # "DirtyVisual" THEN rest[t]
               ELSE [Storage_new("DirtyVisual") EXCEPT !.data =
                        {<<e, [unit |-> "DirtyVisual"]>> : e \in changed}]]

RECURSIVE insert_dirty(_, _)
\* for e in &changed { world.insert(*e, DirtyVisual); }
insert_dirty(changed, st) ==
    IF changed = {} THEN st
    ELSE LET e == CHOOSE x \in changed : TRUE
         IN insert_dirty(changed \ {e},
                inserted(st, "DirtyVisual", e, [unit |-> "DirtyVisual"]))

\* hover_update on the registry st: whether storage_mut().unwrap() panicked,
\* the registry it leaves and the entities it pushed to `changed` (the two
\* lists hover_detect returns are disjoint, so no entity is pushed twice).
hover_update_run(st, hovered, not_hovered) ==
    IF storage_mut_result(st, "Interactable") # "some"
    THEN [panicked |-> TRUE, storages |-> st, changed |-> {}]
    ELSE LET l1 == set_state(hovered, st["Interactable"].data, "HOVERED", {})
             l2 == set_state(not_hovered, l1.data, "DEFAULT", l1.changed)
             st1 == [st EXCEPT !["Interactable"].data = l2.data]
         IN [panicked |-> FALSE,
             storages |-> insert_dirty(l2.changed, st1),
             changed |-> l2.changed]

\* hover_update(world, &hovered, &not_hovered), second call of hover_system.
hover_update ==
    /\ pc = "detected"
    /\ LET run == hover_update_run(storages, op.hovered, op.not_hovered)
       IN /\ storages' = run.storages
          /\ pc' = IF run.panicked THEN "panicked" ELSE "updated"
          /\ op' = [name |-> "hover_update",
                    result |-> IF run.panicked THEN "panic" ELSE "ok",
                    changed |-> run.changed,
                    any_changed |-> run.changed # {}]
    /\ calls' = EmptyBag
    /\ UNCHANGED <<entities, handles>>

\* A colour pass that joins on Interactable alone.
quad_colors_all(st) ==
    IF "Interactable" \notin DOMAIN st THEN {}
    ELSE {<<p[1], color(p[2].state)>> : p \in st["Interactable"].data}

\* compute_quad_colors: (entity, interactable.state.color()) for every
\* tuple of the Interactable/DirtyVisual join.
quad_colors(st) ==
    {<<t[1], color(t[2].state)>> :
        t \in query2_iter(st, "Interactable", "DirtyVisual")}

compute_quad_colors ==
    /\ pc = "updated"
    /\ op' = [name |-> "compute_quad_colors", result |-> "ok",
              any_changed |-> op.any_changed,
              updates |-> quad_colors(storages)]
    /\ pc' = "computed"
    /\ calls' = EmptyBag
    /\ UNCHANGED <<entities, storages, handles>>

RECURSIVE set_colors(_, _)
\* for (entity, color) in updates {
\*     if let Some(quad) = quads.data.get_mut(entity) { quad.color = *color; } }
set_colors(updates, data) ==
    IF updates = {} THEN data
    ELSE LET u == CHOOSE x \in updates : TRUE
         IN set_colors(updates \ {u},
                IF u[1] \in Keys(data)
                THEN hashmap_set(data, u[1],
                         [get(data, u[1]) EXCEPT !.color = u[2]])
                ELSE data)

\* apply_quad_colors(world, &updates), last call of hover_system, which
\* then returns any_changed.
apply_quad_colors ==
    /\ pc = "computed"
    /\ IF storage_mut_result(storages, "Quad") # "some"
       THEN /\ pc' = "panicked"
            /\ op' = [name |-> "apply_quad_colors", result |-> "panic"]
            /\ UNCHANGED storages
       ELSE /\ storages' = [storages EXCEPT !["Quad"].data =
                                set_colors(op.updates, @)]
            /\ pc' = "returned"
            /\ op' = [name |-> "hover_system", result |-> "ok",
                      any_changed |-> op.any_changed]
    /\ calls' = EmptyBag
    /\ UNCHANGED <<entities, handles>>

\* render_quads: view_mut::<Quad>(), then view::<Transform>(), then one
\* draw_rect per Quad (calls keeps what is drawn and whether a transform
\* was applied); both views are dropped when it returns.
render_quads ==
    LET q_view == expect(storage_mut_result(storages, "Quad"))
        st1 == IF q_view = "some" THEN acquire_mut(storages, "Quad")
               ELSE storages
        t_view == IF q_view = "panic" THEN "unreached"
                  ELSE expect(storage_result(st1, "Transform"))
    IN /\ pc = "running"
       /\ pc' = IF "panic" \in {q_view, t_view} THEN "panicked"
                ELSE "returned"
       /\ op' = [NoOp EXCEPT !.name = "render_quads",
                             !.result = IF "panic" \in {q_view, t_view}
                                        THEN "panic" ELSE "ok"]
       /\ calls' = IF "panic" \in {q_view, t_view} THEN EmptyBag
                   ELSE SetToBag({<<p[1], p[2].rect, p[2].color,
                                    p[1] \in Keys(st1["Transform"].data)>> :
                                     p \in st1["Quad"].data})
       /\ UNCHANGED <<entities, storages, handles>>

\* The caller spawns buttons, inserts components (Parallax, which no
\* modelled function reads, comes with add_button only), and runs the hover
\* step and the render step.
NextApp ==
    \/ resume
    \/ \E rect \in Rects : add_button(rect)
    \/ \E T \in Components \ {"Parallax"}, entity \in EntityIds :
          \E component \in ComponentsOf(T) : insert(T, entity, component)
    \/ \E p \in Points : hover_detect(p[1], p[2])
    \/ hover_update
    \/ compute_quad_colors
    \/ apply_quad_colors
    \/ render_quads

SpecApp == Init /\ [][NextApp]_vars

\* ------------------------------------------------------------ properties
Present(T) == T \in DOMAIN storages

\* The entries of storage T; none when T has no storage.
Data(T) == IF Present(T) THEN storages[T].data ELSE {}

DataAfter(T) == IF T \in DOMAIN storages' THEN storages'[T].data ELSE {}

\* The caller holds no exclusive handle on a type of S.
NoExclusive(S) == \A T \in S : handles[T].exclusive = 0

\* The join of A and B by entity, as a set of callback argument tuples.
Join2(A, B) ==
    {<<pq[1][1], pq[1][2], pq[2][2]>> :
        pq \in {x \in Data(A) \X Data(B) : x[1][1] = x[2][1]}}

\* C1: when query2<A,B> returns, its callback was invoked exactly once with
\* (E, a, b) for every entity E that has the value a in storage A and the
\* value b in storage B, and with nothing else.
C1_Query2Join ==
    [][(op'.name = "query2" /\ pc' = "returned")
          => \A A \in Types, B \in Types :
                query2(A, B) => calls' = SetToBag(Join2(A, B))]_vars

C1_Witness ==
    /\ pc = "returned" /\ op.name = "query2"
    /\ DOMAIN storages = {"A", "B"}
    /\ storages["A"].data = {<<u32(1), "v1">>, <<u32(2), "v2">>}
    /\ storages["B"].data = {<<u32(1), "v2">>}
    /\ calls = SetToBag({<<u32(1), "v1", "v2">>})

\* C7: when query3<A,B,C> returns, the entities its callback was invoked
\* for are exactly the entities that have a value in all three storages.
C7_Query3Entities ==
    [][(op'.name = "query3" /\ pc' = "returned")
          => \A A \in Types, B \in Types, C \in Types :
                query3(A, B, C)
                    => {t[1] : t \in BagToSet(calls')}
                          = Keys(Data(A)) \cap Keys(Data(B))
                              \cap Keys(Data(C))]_vars

C7_Witness ==
    /\ pc = "returned" /\ op.name = "query3"
    /\ DOMAIN storages = Types
    /\ Keys(storages["A"].data) = {u32(1), u32(2)}
    /\ Keys(storages["B"].data) = {u32(1), u32(2)}
    /\ Keys(storages["C"].data) = {u32(1)}
    /\ {t[1] : t \in BagToSet(calls)} = {u32(1)}

\* C8: a query that names a type without storage, called while the caller
\* holds no exclusive handle on a named type, returns normally and has
\* invoked its callback zero times, whichever position the absent type has.
C8_AbsentStorageEmpty ==
    [][/\ op'.name = "query" =>
            \A T \in Types :
                (~Present(T) /\ query(T))
                    => pc' = "returned" /\ calls' = EmptyBag
       /\ op'.name = "query2" =>
            \A A \in Types, B \in Types :
                ((~Present(A) \/ ~Present(B)) /\ NoExclusive({A, B})
                    /\ query2(A, B))
                    => pc' = "returned" /\ calls' = EmptyBag
       /\ op'.name = "query3" =>
            \A A \in Types, B \in Types, C \in Types :
                ((~Present(A) \/ ~Present(B) \/ ~Present(C))
                    /\ NoExclusive({A, B, C}) /\ query3(A, B, C))
                    => pc' = "returned" /\ calls' = EmptyBag]_vars

C8_Witness ==
    /\ pc = "returned" /\ op.name = "query3" /\ calls = EmptyBag
    /\ DOMAIN storages = {"A", "C"}
    /\ Keys(storages["A"].data) \cap Keys(storages["C"].data) # {}
    /\ handles["A"].shared = 1

\* The handles the caller holds on storage T.
HandlesOn(T) == handles[T].shared + handles[T].exclusive

\* C2: a request for an exclusive handle on T (storage_mut or view_mut)
\* made while a shared or exclusive handle on T is outstanding ends in a
\* panic, and leaves the registry, with the contents of T, as it was.
C2_ExclusiveConflictFails ==
    [][op'.name \in {"storage_mut", "view_mut"} =>
          \A T \in Types :
              (HandlesOn(T) > 0 /\ (storage_mut(T) \/ view_mut(T)))
                  => /\ pc' = "panicked"
                     /\ storages' = storages
                     /\ handles' = handles]_vars

C2_Witness ==
    /\ pc = "panicked" /\ op.name \in {"storage_mut", "view_mut"}
    /\ handles["A"].shared = 1 /\ HeldCount = 1
    /\ storages["A"].data # {}

\* Single writer or many readers, for every storage.
BorrowRule ==
    \A T \in Types :
        /\ handles[T].exclusive <= 1
        /\ handles[T].exclusive = 1 => handles[T].shared = 0

\* C3: the handles outstanding on a storage are always shared ones only or
\* one exclusive one only; a shared request (storage or view) on T is
\* refused with a panic while an exclusive handle on T is outstanding, and
\* is granted whenever T exists and no exclusive handle on T is outstanding.
C3_SingleWriterOrReaders ==
    [][/\ BorrowRule'
       /\ op'.name \in {"storage", "view"} =>
            \A T \in Types :
                (Present(T) /\ (storage(T) \/ view(T)))
                    => IF handles[T].exclusive > 0
                       THEN pc' = "panicked" /\ handles' = handles
                       ELSE /\ pc' = "returned" /\ op'.result = "some"
                            /\ handles'[T].shared = handles[T].shared + 1]_vars

C3_Witness ==
    /\ pc = "panicked" /\ op.name \in {"storage", "view"}
    /\ \E T \in Types, U \in Types :
          handles[T].exclusive = 1 /\ handles[U].shared >= 1

\* C4: every identifier spawn returns is greater than every identifier in
\* the entity list (the ones returned before), is not 0, and is 1 when the
\* list was empty.
C4_SpawnStrictlyIncreasing ==
    [][(spawn /\ pc' = "returned")
          => /\ \A i \in 1..Len(entities) :
                  u32_lt(entities[i], op'.entity)
             /\ op'.entity # u32(0)
             /\ entities = <<>> => op'.entity = u32(1)]_vars

\* C5: after insert<T>(E, v) storage T holds exactly one entry for E, with
\* the value v, which is what a lookup of E returns (also when E had another
\* value before); an insert for an entity that had a value does not change
\* the number of entries; no storage ever holds two entries for an entity.
C5_InsertOverwrites ==
    [][/\ \A T \in DOMAIN storages' :
            \A p \in storages'[T].data, q \in storages'[T].data :
                p[1] = q[1] => p = q
       /\ op'.name = "insert" =>
            \A T \in Types, entity \in EntityIds, component \in Values :
                insert(T, entity, component)
                    => /\ {p \in DataAfter(T) : p[1] = entity}
                            = {<<entity, component>>}
                       /\ get(DataAfter(T), entity) = component
                       /\ entity \in Keys(Data(T))
                            => Cardinality(DataAfter(T))
                                  = Cardinality(Data(T))]_vars

C5_Witness ==
    /\ pc = "returned" /\ op.name = "insert" /\ op.old = "v1"
    /\ DOMAIN storages = {"A"}
    /\ storages["A"].data = {<<u32(1), "v2">>}

\* C6: insert<A>(E, v) leaves the entity list, every other storage (its
\* existence and all its entries) and the entries of A for every entity
\* other than E as they were.
C6_InsertFrame ==
    [][op'.name = "insert" =>
          \A A \in Types, entity \in EntityIds, component \in Values :
              insert(A, entity, component)
                  => /\ entities' = entities
                     /\ \A B \in Types \ {A} :
                          /\ B \in DOMAIN storages' <=> Present(B)
                          /\ DataAfter(B) = Data(B)
                     /\ {p \in DataAfter(A) : p[1] # entity}
                          = {p \in Data(A) : p[1] # entity}]_vars

C6_Witness ==
    /\ pc = "returned" /\ op.name = "insert" /\ op.old = "none"
    /\ DOMAIN storages = {"A", "B"}
    /\ storages["A"].data = {<<u32(1), "v1">>, <<u32(2), "v2">>}
    /\ storages["B"].data = {<<u32(1), "v2">>}

\* C9: a type has a storage exactly from the first insert of that type on;
\* storage<T> with no exclusive handle on T outstanding, and storage_mut<T>
\* with no handle on T outstanding, return the absent result when T has no
\* storage and a handle when it has one.
C9_AbsentIffNeverInserted ==
    [][\A T \in Types :
          /\ Present(T) => T \in DOMAIN storages'
          /\ (~Present(T) /\ T \in DOMAIN storages')
                => \E entity \in EntityIds, component \in Values :
                      insert(T, entity, component)
          /\ op'.name = "insert" =>
                ((\E entity \in EntityIds, component \in Values :
                      insert(T, entity, component))
                    => T \in DOMAIN storages')
          /\ (op'.name = "storage" /\ handles[T].exclusive = 0 /\ storage(T))
                => /\ pc' = "returned"
                   /\ op'.result = IF Present(T) THEN "some" ELSE "none"
          /\ (op'.name = "storage_mut" /\ HandlesOn(T) = 0 /\ storage_mut(T))
                => /\ pc' = "returned"
                   /\ op'.result = IF Present(T) THEN "some" ELSE "none"]_vars

C9_Witness ==
    /\ pc = "returned" /\ op.name = "storage_mut" /\ op.result = "none"
    /\ DOMAIN storages = {"A", "B"}

\* C10: for distinct existing types A and B, with a handle on A outstanding
\* and no conflicting handle on B itself, storage<B> and storage_mut<B>
\* return a handle.
C10_OtherStorageNotBlocked ==
    [][op'.name \in {"storage", "storage_mut"} =>
          \A A \in Types, B \in Types :
              (A # B /\ Present(A) /\ Present(B) /\ HandlesOn(A) > 0)
                  => /\ (handles[B].exclusive = 0 /\ storage(B))
                          => /\ pc' = "returned" /\ op'.result = "some"
                             /\ handles'[B].shared = handles[B].shared + 1
                     /\ (HandlesOn(B) = 0 /\ storage_mut(B))
                          => /\ pc' = "returned" /\ op'.result = "some"
                             /\ handles'[B].exclusive = 1]_vars

C10_Witness ==
    /\ pc = "returned" /\ op.name = "storage_mut" /\ op.result = "some"
    /\ handles["A"].exclusive = 1 /\ handles["B"].exclusive = 1

\* C12: in every reachable state the storage registered under the identity
\* of T was created as a storage of T (the registry, a map, has one cell per
\* type), so the downcast of insert, storage and storage_mut finds its type;
\* an insert of a type that has a storage reuses that storage.
C12_DowncastNeverFails ==
    [][/\ \A T \in DOMAIN storages' : downcast(storages'[T], T)
       /\ op'.name = "insert" =>
            \A T \in Types, entity \in EntityIds, component \in Values :
                (Present(T) /\ insert(T, entity, component))
                    => /\ storages'[T].of = storages[T].of
                       /\ Keys(Data(T)) \subseteq Keys(DataAfter(T))]_vars

C12_Witness ==
    /\ pc = "returned" /\ op.name = "insert"
    /\ DOMAIN storages = Types
    /\ \A T \in Types : storages[T].of = T /\ storages[T].data # {}

\* C15: a spawn made when the last identifier of the entity list is the
\* largest 32-bit value ends in a panic: it returns no identifier and the
\* entity list gets no new member (no 0, no identifier allocated before).
C15_SpawnOverflowFatal ==
    [][(spawn /\ entities # <<>> /\ entities[Len(entities)] = U32Max)
          => /\ pc' = "panicked"
             /\ entities' = entities]_vars

\* The entities a query of the types in S invokes its callback for.
Joined(S) == {e \in EntityIds : \A T \in S : e \in Keys(Data(T))}

\* The outcome C16 states for a query that names the types of S, invokes its
\* callback at least once and is called while the caller holds no exclusive
\* handle on a named type: a request for an exclusive handle on a named
\* type panics; a request on an existing type that is not named, and on
\* which the caller holds no handle, gets its handle and the query returns.
ReentrantOutcome(S, T) ==
    (Joined(S) # {} /\ NoExclusive(S))
        => /\ T \in S => pc' = "panicked"
           /\ (T \notin S /\ Present(T) /\ HandlesOn(T) = 0)
                => /\ pc' = "returned" /\ op'.result = "some"
                   /\ Cardinality(BagToSet(calls'))
                        = Cardinality(Joined(S))

\* C16: while a query runs its callback every storage it names is borrowed
\* shared: a callback's storage_mut / view_mut on a named storage panics, on
\* an existing storage that is not named it is granted.
C16_CallbackExclusiveRequest ==
    [][op'.name \in {"query_reentrant", "query2_reentrant",
                     "query3_reentrant"}
          => ReentrantOutcome(op'.named, op'.requested)]_vars

\* A query2 of A and B whose callback got an exclusive handle on C.
C16_Witness ==
    /\ pc = "returned" /\ op.name = "query2_reentrant" /\ op.result = "some"
    /\ op.named = {"A", "B"} /\ op.requested = "C"
    /\ DOMAIN storages = Types
    /\ Keys(storages["A"].data) \cap Keys(storages["B"].data) # {}
    /\ calls # EmptyBag
    /\ handles["A"].shared = 1

\* The tuples a query passes to its callback when it is run on the
\* registry the step leaves behind.
Again1(A) ==
    IF A \in DOMAIN storages' /\ storage_result(storages', A) = "some"
    THEN BagToSet(iter1(DataAfter(A), EmptyBag)) ELSE {}

Again2(A, B) ==
    IF {A, B} \subseteq DOMAIN storages'
         /\ storage_result(storages', A) = "some"
         /\ storage_result(acquire(storages', A), B) = "some"
    THEN BagToSet(iter2(DataAfter(A), DataAfter(B), EmptyBag)) ELSE {}

Again3(A, B, C) ==
    IF {A, B, C} \subseteq DOMAIN storages'
         /\ storage_result(storages', A) = "some"
         /\ storage_result(acquire(storages', A), B) = "some"
         /\ storage_result(acquire(acquire(storages', A), B), C) = "some"
    THEN BagToSet(iter3(DataAfter(A), DataAfter(B), DataAfter(C), EmptyBag))
    ELSE {}

\* C17: a query whose callback performs no store operation leaves the entity
\* list, the set of storages and every stored value as they were, and the
\* same query run again right after it passes the same set of tuples.
C17_QueryReadOnly ==
    [][(op'.name \in {"query", "query2", "query3"} /\ pc' = "returned")
          => /\ entities' = entities
             /\ DOMAIN storages' = DOMAIN storages
             /\ \A T \in Types : DataAfter(T) = Data(T)
             /\ op'.name = "query" =>
                  \A A \in Types :
                      BagToSet(calls') = Again1(A) \/ ~query(A)
             /\ op'.name = "query2" =>
                  \A A \in Types, B \in Types :
                      BagToSet(calls') = Again2(A, B) \/ ~query2(A, B)
             /\ op'.name = "query3" =>
                  \A A \in Types, B \in Types, C \in Types :
                      BagToSet(calls') = Again3(A, B, C)
                          \/ ~query3(A, B, C)]_vars

C17_Witness ==
    /\ pc = "returned" /\ op.name = "query2"
    /\ Cardinality(BagToSet(calls)) = 2
    /\ Cardinality(DOMAIN storages) = 3
    /\ Len(entities) = 2

\* C19: when a query returns, every borrow it took is given back (each
\* cell's borrow flag is what it was before the call, also when some named
\* storage is absent); called while the caller holds no handle, it leaves
\* no storage borrowed, so that a storage_mut on any existing type gets its
\* handle.
C19_QueryReleasesHandles ==
    [][(op'.name \in {"query", "query2", "query3"} /\ pc' = "returned")
          => /\ handles' = handles
             /\ \A T \in DOMAIN storages :
                  storages'[T].borrow = storages[T].borrow
             /\ HeldCount = 0 =>
                  \A T \in DOMAIN storages' :
                      /\ storages'[T].borrow = UNUSED
                      /\ storage_mut_result(storages', T) = "some"]_vars

\* A query3 that returned on a World where C is absent, A and B exist.
C19_Witness ==
    /\ pc = "returned" /\ op.name = "query3"
    /\ DOMAIN storages = {"A", "B"}
    /\ Keys(storages["A"].data) \cap Keys(storages["B"].data) # {}
    /\ HeldCount = 0
    /\ \A T \in DOMAIN storages : storages[T].borrow = UNUSED

\* C11: an absent storage is never fatal for an accessor: render_quads on a
\* World that holds Quads and has no Transform storage returns (it draws),
\* and there view and view_mut of every type without a storage end without
\* a panic.
C11_AbsentStorageNotFatal ==
    [][(op'.name = "render_quads" /\ Data("Quad") # {}
            /\ ~Present("Transform"))
          => /\ pc' = "returned"
             /\ \A T \in Components :
                  ~Present(T)
                     => /\ expect(storage_result(storages, T)) # "panic"
                        /\ expect(storage_mut_result(storages, T))
                              # "panic"]_vars

\* The entities that have both a Bounds and an Interactable component.
HoverJoin == Keys(Data("Bounds")) \cap Keys(Data("Interactable"))

\* The point p lies in the Bounds rectangle of entity, edges included.
Contains(entity, p) ==
    LET r == get(Data("Bounds"), entity).rect
    IN p[1] \in r.left..r.right /\ p[2] \in r.top..r.bottom

\* E1 has the rectangle (30,30,30,30), E2 the disjoint rectangle
\* (100,200,150,300), and both are Interactable.
Scenario ==
    /\ Data("Bounds") = {<<u32(1), [rect |-> from_xywh(30, 30, 30, 30)]>>,
                         <<u32(2), [rect |-> from_xywh(100, 200, 150, 300)]>>}
    /\ Keys(Data("Interactable")) = {u32(1), u32(2)}

\* C13: hover_detect at a point returns as hovered exactly the entities of
\* the Bounds/Interactable join whose rectangle contains the point (edges
\* included) and as not hovered the rest of the join; with E1 and E2 as in
\* Scenario, (35,35) gives {E1} and (500,500) gives no entity.
C13_HoverDetect ==
    [][op'.name = "hover_detect" =>
          /\ \A p \in Points :
                \/ /\ op'.hovered = {e \in HoverJoin : Contains(e, p)}
                   /\ op'.not_hovered = {e \in HoverJoin : ~Contains(e, p)}
                \/ ~hover_detect(p[1], p[2])
          /\ Scenario =>
                /\ hover_detect(35, 35) => op'.hovered = {u32(1)}
                /\ hover_detect(500, 500) => op'.hovered = {}]_vars

C13_Witness ==
    /\ pc = "detected" /\ op.name = "hover_detect"
    /\ Scenario
    /\ op.hovered = {u32(1)} /\ op.not_hovered = {u32(2)}

\* The entities that have both an Interactable and a DirtyVisual component.
DirtyJoin == Keys(Data("Interactable")) \cap Keys(Data("DirtyVisual"))

\* C14: after compute_quad_colors and apply_quad_colors the Quad of every
\* entity that has Interactable and DirtyVisual has the colour of the
\* entity's Interactable state (and its rectangle as before), and the Quad
\* of every other entity, those without DirtyVisual among them, is as it
\* was; no Quad is added or removed.
C14_ColourPass ==
    [][(pc = "computed" /\ op'.name = "hover_system")
          => /\ Keys(DataAfter("Quad")) = Keys(Data("Quad"))
             /\ \A p \in DataAfter("Quad") :
                  IF p[1] \in DirtyJoin
                  THEN /\ p[2].color
                           = color(get(DataAfter("Interactable"), p[1]).state)
                       /\ p[2].rect = get(Data("Quad"), p[1]).rect
                  ELSE p[2] = get(Data("Quad"), p[1])]_vars

\* E1 is dirty and hovered and its Quad has the hovered colour; E2 is
\* pressed, not dirty, and its Quad still has the default colour.
C14_Witness ==
    /\ pc = "returned" /\ op.name = "hover_system"
    /\ {"Quad", "Interactable", "DirtyVisual"} \subseteq DOMAIN storages
    /\ Keys(storages["DirtyVisual"].data) = {u32(1)}
    /\ <<u32(1), [state |-> "HOVERED"]>> \in storages["Interactable"].data
    /\ <<u32(2), [state |-> "PRESSED"]>> \in storages["Interactable"].data
    /\ get(storages["Quad"].data, u32(1)).color = color("HOVERED")
    /\ <<u32(2), [rect |-> from_xywh(30, 30, 30, 30),
                  color |-> color("DEFAULT")]>> \in storages["Quad"].data

\* C18: no step removes anything: the entity list only grows at its end,
\* and an entity that has a component of a type has one after every step;
\* the entities hover_update changed have the DirtyVisual marker, an entity
\* of the Interactable/DirtyVisual join stays in it, and every
\* compute_quad_colors selects all the entities of that join.
C18_ComponentsAccumulate ==
    [][/\ Len(entities') >= Len(entities)
       /\ SubSeq(entities', 1, Len(entities)) = entities
       /\ DOMAIN storages \subseteq DOMAIN storages'
       /\ \A T \in Components : Keys(Data(T)) \subseteq Keys(DataAfter(T))
       /\ DirtyJoin \subseteq DirtyJoin'
       /\ (op'.name = "hover_update" /\ pc' = "updated")
            => op'.changed \subseteq DirtyJoin'
       /\ op'.name = "compute_quad_colors"
            => {u[1] : u \in op'.updates} = DirtyJoin]_vars

\* E1, marked in an earlier hover step, is selected by the colour join of a
\* later step in which nothing changed.
C18_Witness ==
    /\ pc = "computed" /\ op.name = "compute_quad_colors"
    /\ ~op.any_changed
    /\ u32(1) \in {u[1] : u \in op.updates}
    /\ Len(entities) = 2

\* The Interactable state of entity before and after the step.
StateOf(entity) == get(Data("Interactable"), entity).state

StateAfter(entity) == get(DataAfter("Interactable"), entity).state

\* C20: a hover_update that returns has set the state of every listed
\* hovered entity to HOVERED and of every listed not-hovered entity to
\* DEFAULT and left the other states alone; the entities it pushed to
\* `changed` are exactly those whose state differs afterwards, they are
\* exactly the entities added to the DirtyVisual markers, and it returns
\* true iff there is one; a second call with the same two lists changes
\* nothing, marks nothing and returns false.
C20_HoverUpdate ==
    [][(pc = "detected" /\ pc' = "updated")
          => /\ Keys(DataAfter("Interactable")) = Keys(Data("Interactable"))
             /\ \A e \in Keys(Data("Interactable")) :
                  StateAfter(e) = IF e \in op.hovered THEN "HOVERED"
                                  ELSE IF e \in op.not_hovered THEN "DEFAULT"
                                  ELSE StateOf(e)
             /\ op'.changed = {e \in Keys(Data("Interactable")) :
                                  StateAfter(e) # StateOf(e)}
             /\ Keys(DataAfter("DirtyVisual"))
                  = Keys(Data("DirtyVisual")) \cup op'.changed
             /\ op'.any_changed <=> op'.changed # {}
             /\ LET again == hover_update_run(storages', op.hovered,
                                              op.not_hovered)
                IN /\ ~again.panicked
                   /\ again.changed = {}
                   /\ again.storages = storages']_vars

\* One call changed both entities: E1 became hovered, E2 went back to
\* DEFAULT.
C20_Witness ==
    /\ pc = "updated" /\ op.name = "hover_update"
    /\ op.changed = {u32(1), u32(2)} /\ op.any_changed
    /\ storages["Interactable"].data
          = {<<u32(1), [state |-> "HOVERED"]>>,
             <<u32(2), [state |-> "DEFAULT"]>>}
    /\ Keys(storages["DirtyVisual"].data) = {u32(1), u32(2)}

====
